---- MODULE Spec2Model ----
(***************************************************************************)
(* State-machine model of the SnakeGame React component                    *)
(* (src/snake-game/src/SnakeGame.jsx).                                     *)
(*                                                                         *)
(* The component state (useState cells) and the localStorage item are the  *)
(* variables; every event handler, and the three outcomes of the interval  *)
(* callback of the game loop, is one action.  React re-runs the game-loop  *)
(* effect whenever running, direction, speed, food, gameOver or score      *)
(* change, so the interval callback always reads the committed values of   *)
(* direction, food and score; functional updaters (setSnake, setDirection, *)
(* setRunning, setScore, setHighScore) read the latest value.  Handlers    *)
(* are serialised by the JavaScript event loop, so each is atomic.         *)
(*                                                                         *)
(* active, wanted and event are history variables: they record what the    *)
(* previous tick applied, what the requests since then ask for, and which  *)
(* handler ran last.  No handler reads them.  wrote tells whether the last *)
(* handler called localStorage.setItem.                                    *)
(***************************************************************************)
EXTENDS Integers, Sequences, FiniteSets

VARIABLES snake, direction, food, running, speed, score, gameOver,
          highScore, storage, wrote, hung, active, wanted, event

vars == <<snake, direction, food, running, speed, score, gameOver,
          highScore, storage, wrote, hung, active, wanted, event>>

(* ---------------------------- bounds ----------------------------------- *)

\* Cells per row/column.  The component uses 20; the model uses a small
\* torus so that every snake shape, the full board included, is explored.
GRID_SIZE == 2

\* Longest snake explored: a tick that would grow the snake beyond MaxLen
\* is not taken.  (On the 2 x 2 grid no snake gets past three cells: the
\* tick that would add the fourth never completes.)
MaxLen == 3

\* Largest high score found in localStorage when the component mounts.
MaxStored == 1

(* ---------------------------- constants -------------------------------- *)

DefaultSpeed == 8
MinSpeed == 3
MaxSpeed == 20

\* localStorage.getItem returns null when the key is absent.
NoItem == <<"null">>

\* No tick has been applied yet in this game / no request since the tick.
NoDir == [x |-> 0, y |-> 0]

(* ---------------------------- helpers ---------------------------------- *)

Cells == [x : 0..(GRID_SIZE - 1), y : 0..(GRID_SIZE - 1)]

Up    == [x |-> 0, y |-> -1]
Down  == [x |-> 0, y |-> 1]
Left  == [x |-> -1, y |-> 0]
Right == [x |-> 1, y |-> 0]
Directions == {Up, Down, Left, Right}

Speeds == {MinSpeed, DefaultSpeed, MaxSpeed}

Centre == [x |-> GRID_SIZE \div 2, y |-> GRID_SIZE \div 2]

InitialSnake == <<Centre>>

Range(s) == {s[i] : i \in 1..Len(s)}

Max(a, b) == IF a >= b THEN a ELSE b

positionsEqual(a, b) == a.x = b.x /\ a.y = b.y

oppositeDirection(d1, d2) == d1.x + d2.x = 0 /\ d1.y + d2.y = 0

\* String(n) for a non-negative integer, as a sequence of digit characters.
Digit == <<"0", "1", "2", "3", "4", "5", "6", "7", "8", "9">>

RECURSIVE ToString(_)
ToString(n) == IF n < 10 THEN <<Digit[n + 1]>>
               ELSE Append(ToString(n \div 10), Digit[(n % 10) + 1])

DigitValue(c) == CHOOSE k \in 0..9 : Digit[k + 1] = c

\* Number(v) for a string of decimal digits.
RECURSIVE ToNumber(_)
ToNumber(v) == IF Len(v) = 0 THEN 0
               ELSE 10 * ToNumber(SubSeq(v, 1, Len(v) - 1)) + DigitValue(v[Len(v)])

\* useState initialiser of highScore: v ? Number(v) : 0
LoadHighScore(v) == IF v = NoItem \/ Len(v) = 0 THEN 0 ELSE ToNumber(v)

\* Cells randomFoodPosition(exclude) can return: the loop resamples until
\* the sampled cell is not in exclude, so it returns exactly the cells
\* outside exclude, and never returns when there is none.
randomFoodPosition(exclude) == {c \in Cells : ~\E p \in exclude : p.x = c.x /\ p.y = c.y}

\* Variant of NewHead without the wrap-around (walls instead of a torus).
NewHeadNoWrap(prev, d) == [x |-> prev[1].x + d.x, y |-> prev[1].y + d.y]

\* head = prev[0] + direction, wrapped on both axes
NewHead(prev, d) == [x |-> ((prev[1].x + d.x) + GRID_SIZE) % GRID_SIZE,
                     y |-> ((prev[1].y + d.y) + GRID_SIZE) % GRID_SIZE]

\* Variant of SelfCollision that skips the tail cell (the cell the move would vacate).
SelfCollisionSkipsTail(prev, head) == \E i \in 1..(Len(prev) - 1) : positionsEqual(prev[i], head)

\* Variant of SelfCollision with the check removed.
SelfCollisionNever(prev, head) == FALSE

\* prev.some((p) => positionsEqual(p, head))
SelfCollision(prev, head) == \E i \in 1..Len(prev) : positionsEqual(prev[i], head)

\* [head, ...prev]
Grown(prev, head) == <<head>> \o prev

\* Variant of Moved that forgets to pop the tail.
MovedNoPop(prev, head) == <<head>> \o prev

\* Variant of Moved that pops the wrong end (shift instead of pop).
MovedShift(prev, head) == prev

\* [head, ...prev] followed by pop()
Moved(prev, head) == SubSeq(<<head>> \o prev, 1, Len(prev))

\* Variant of NewHighScore that stores the score of the game just ended.
NewHighScoreLast(hs, s) == s

\* Math.max(hs, score)
NewHighScore(hs, s) == Max(hs, s)

\* Variant of Turn that takes every request.
TurnAlways(prev, d) == d

\* (prev) => (!oppositeDirection(prev, d) ? d : prev)
Turn(prev, d) == IF ~oppositeDirection(prev, d) THEN d ELSE prev

\* The request the next tick should apply when requests are judged against
\* the direction applied by the previous tick.
Wanted(d) == IF active # NoDir /\ oppositeDirection(active, d) THEN wanted ELSE d

(* ---------------------------- initial state ---------------------------- *)

Init ==
    /\ snake = InitialSnake
    /\ direction = Right
    /\ food \in randomFoodPosition({})
    /\ running = FALSE
    /\ speed = DefaultSpeed
    /\ score = 0
    /\ gameOver = FALSE
    /\ storage \in {NoItem} \cup {ToString(k) : k \in 0..MaxStored}
    /\ highScore = LoadHighScore(storage)
    /\ wrote = FALSE
    /\ hung = FALSE
    /\ active = NoDir
    /\ wanted = NoDir
    /\ event = "init"

(* ---------------------------- direction requests ----------------------- *)

\* setDirection((prev) => ...) as issued by every input source
Request(d, ev) ==
    /\ direction' = Turn(direction, d)
    /\ wanted' = Wanted(d)
    /\ event' = ev
    /\ wrote' = FALSE
    /\ UNCHANGED <<snake, food, running, speed, score, gameOver, highScore,
                   storage, hung, active>>

\* onKey, arrow / WASD branches
KeyDirection ==
    /\ ~hung
    /\ running
    /\ \E d \in Directions : Request(d, "key")

\* handleTouchEnd
Swipe ==
    /\ ~hung
    /\ \E d \in Directions : Request(d, "swipe")

\* on-screen arrow buttons
ButtonDirection ==
    /\ ~hung
    /\ \E d \in Directions : Request(d, "button")

\* onKey, " " key: returns at once when not running, else
\* setRunning((r) => !r)
KeySpace ==
    /\ ~hung
    /\ running' = (IF ~running THEN running ELSE ~running)
    /\ event' = "space"
    /\ wrote' = FALSE
    /\ UNCHANGED <<snake, direction, food, speed, score, gameOver, highScore,
                   storage, hung, active, wanted>>

\* Toggle button: setRunning((r) => !r)
Toggle ==
    /\ ~hung
    /\ running' = ~running
    /\ event' = "toggle"
    /\ wrote' = FALSE
    /\ UNCHANGED <<snake, direction, food, speed, score, gameOver, highScore,
                   storage, hung, active, wanted>>

(* ---------------------------- game loop -------------------------------- *)

\* Variant of TickEnabled that forgets the gameOver test.
TickEnabledIgnoresOver == ~hung /\ running

\* the game-loop effect installs the interval only when running and not over
TickEnabled == ~hung /\ running /\ ~gameOver

\* the model's cap on the snake length
MayGrow == Len(snake) < MaxLen

\* Variant of TickCollision that persists the score instead of the maximum.
TickCollisionStoresScore ==
    /\ TickEnabled
    /\ SelfCollision(snake, NewHead(snake, direction))
    /\ running' = FALSE
    /\ gameOver' = TRUE
    /\ highScore' = NewHighScore(highScore, score)
    /\ storage' = ToString(score)
    /\ active' = direction
    /\ wanted' = NoDir
    /\ event' = "collision"
    /\ wrote' = TRUE
    /\ UNCHANGED <<snake, direction, food, speed, score, hung>>

\* self collision: game over, high score saved, snake returned unchanged
TickCollision ==
    /\ TickEnabled
    /\ SelfCollision(snake, NewHead(snake, direction))
    /\ running' = FALSE
    /\ gameOver' = TRUE
    /\ highScore' = NewHighScore(highScore, score)
    /\ storage' = ToString(NewHighScore(highScore, score))
    /\ active' = direction
    /\ wanted' = NoDir
    /\ event' = "collision"
    /\ wrote' = TRUE
    /\ UNCHANGED <<snake, direction, food, speed, score, hung>>

\* the head lands on the food and a free cell exists for the new food
TickFood ==
    /\ TickEnabled
    /\ ~SelfCollision(snake, NewHead(snake, direction))
    /\ positionsEqual(NewHead(snake, direction), food)
    /\ MayGrow
    /\ randomFoodPosition(Range(Grown(snake, NewHead(snake, direction)))) # {}
    /\ snake' = Grown(snake, NewHead(snake, direction))
    /\ score' = score + 1
    /\ food' \in randomFoodPosition(Range(Grown(snake, NewHead(snake, direction))))
    /\ active' = direction
    /\ wanted' = NoDir
    /\ event' = "foodEaten"
    /\ wrote' = FALSE
    /\ UNCHANGED <<direction, running, speed, gameOver, highScore, storage, hung>>

\* the head lands on the food and the grown snake covers the grid:
\* randomFoodPosition never returns, the updater never completes and no
\* state is committed
TickBoardFull ==
    /\ TickEnabled
    /\ ~SelfCollision(snake, NewHead(snake, direction))
    /\ positionsEqual(NewHead(snake, direction), food)
    /\ randomFoodPosition(Range(Grown(snake, NewHead(snake, direction)))) = {}
    /\ hung' = TRUE
    /\ event' = "hang"
    /\ wrote' = FALSE
    /\ UNCHANGED <<snake, direction, food, running, speed, score, gameOver,
                   highScore, storage, active, wanted>>

\* plain move: head prepended, tail popped
TickMove ==
    /\ TickEnabled
    /\ ~SelfCollision(snake, NewHead(snake, direction))
    /\ ~positionsEqual(NewHead(snake, direction), food)
    /\ snake' = Moved(snake, NewHead(snake, direction))
    /\ active' = direction
    /\ wanted' = NoDir
    /\ event' = "moved"
    /\ wrote' = FALSE
    /\ UNCHANGED <<direction, food, running, speed, score, gameOver, highScore,
                   storage, hung>>

Tick == TickCollision \/ TickFood \/ TickBoardFull \/ TickMove

(* ---------------------------- controls --------------------------------- *)

\* Variant of ResetTo that also puts the speed back to its default.
ResetToDefaultSpeed(run, over, ev) ==
    /\ snake' = InitialSnake
    /\ direction' = Right
    /\ food' \in randomFoodPosition({})
    /\ score' = 0
    /\ gameOver' = over
    /\ running' = run
    /\ speed' = DefaultSpeed
    /\ active' = NoDir
    /\ wanted' = NoDir
    /\ event' = ev
    /\ wrote' = FALSE
    /\ UNCHANGED <<highScore, storage, hung>>

\* the six setters of resetGame; run and over are the values the caller
\* leaves in running and gameOver
ResetTo(run, over, ev) ==
    /\ snake' = InitialSnake
    /\ direction' = Right
    /\ food' \in randomFoodPosition({})
    /\ score' = 0
    /\ gameOver' = over
    /\ running' = run
    /\ active' = NoDir
    /\ wanted' = NoDir
    /\ event' = ev
    /\ wrote' = FALSE
    /\ UNCHANGED <<speed, highScore, storage, hung>>

\* Reset button and the game-over panel's "Try again" button
resetGame ==
    /\ ~hung
    /\ ResetTo(FALSE, FALSE, "reset")

\* Variant of handleStart that resets whether or not the game is over.
handleStartAlwaysResets ==
    /\ ~hung
    /\ ~running
    /\ ResetTo(TRUE, FALSE, "start")

\* Start button, shown while not running
handleStart ==
    /\ ~hung
    /\ ~running
    /\ IF gameOver
         THEN ResetTo(TRUE, FALSE, "start")
         ELSE /\ running' = TRUE
              /\ gameOver' = FALSE
              /\ event' = "start"
              /\ wrote' = FALSE
              /\ UNCHANGED <<snake, direction, food, speed, score, highScore,
                             storage, hung, active, wanted>>

\* Variant of handlePause that also clears gameOver.
handlePauseClearsOver ==
    /\ ~hung
    /\ running
    /\ running' = FALSE
    /\ gameOver' = FALSE
    /\ event' = "pause"
    /\ wrote' = FALSE
    /\ UNCHANGED <<snake, direction, food, speed, score, highScore,
                   storage, hung, active, wanted>>

\* Pause button, shown while running
handlePause ==
    /\ ~hung
    /\ running
    /\ running' = FALSE
    /\ event' = "pause"
    /\ wrote' = FALSE
    /\ UNCHANGED <<snake, direction, food, speed, score, gameOver, highScore,
                   storage, hung, active, wanted>>

\* "Restart" button of the game-over panel
Restart ==
    /\ ~hung
    /\ gameOver
    /\ running' = TRUE
    /\ gameOver' = FALSE
    /\ event' = "restart"
    /\ wrote' = FALSE
    /\ UNCHANGED <<snake, direction, food, speed, score, highScore, storage,
                   hung, active, wanted>>

\* speed slider
SetSpeed ==
    /\ ~hung
    /\ \E s \in Speeds : speed' = s
    /\ event' = "speed"
    /\ wrote' = FALSE
    /\ UNCHANGED <<snake, direction, food, running, score, gameOver, highScore,
                   storage, hung, active, wanted>>

\* "Reset High" button
ResetHigh ==
    /\ ~hung
    /\ storage' = ToString(0)
    /\ highScore' = 0
    /\ event' = "resetHigh"
    /\ wrote' = TRUE
    /\ UNCHANGED <<snake, direction, food, running, speed, score, gameOver,
                   hung, active, wanted>>

(* ---------------------------- specification ---------------------------- *)

Next ==
    \/ KeyDirection
    \/ Swipe
    \/ ButtonDirection
    \/ KeySpace
    \/ Toggle
    \/ TickCollision
    \/ TickFood
    \/ TickBoardFull
    \/ TickMove
    \/ resetGame
    \/ handleStart
    \/ handlePause
    \/ Restart

Spec == Init /\ [][Next]_vars

\* the same game with the speed slider in use
NextSpeed == Next \/ SetSpeed

SpecSpeed == Init /\ [][NextSpeed]_vars

(* ---------------------------- properties ------------------------------- *)

TickEvents == {"collision", "foodEaten", "moved", "hang"}

\* the step is an interval callback of the game loop
TickStep == event' \in TickEvents

\* the cell the next tick moves the head to
Target == NewHead(snake, direction)

NoDuplicates(s) == \A i, j \in 1..Len(s) : i # j => s[i] # s[j]

\* C1: the direction a tick applies is never the exact opposite of the
\* direction the previous tick of the same game applied, whatever requests
\* arrived in between.
C1_NoReversal ==
    [][(TickEnabled /\ TickStep /\ active # NoDir)
         => ~oppositeDirection(direction, active)]_vars

\* C2: whenever food has just been placed (creation, reset, or after
\* eating) the food cell is not a cell of the snake.
C2_FoodOffSnake ==
    event \in {"init", "reset", "foodEaten"} => food \notin Range(snake)

\* C3: a tick whose new head lands on the food without colliding prepends
\* the head and keeps the tail (length + 1), adds 1 to the score and puts
\* the food on a cell outside the grown snake.
C3_EatGrows ==
    [][(TickEnabled /\ TickStep /\ Target \notin Range(snake) /\ Target = food)
         => /\ snake' = <<Target>> \o snake
            /\ Len(snake') = Len(snake) + 1
            /\ score' = score + 1
            /\ food' \notin Range(snake')]_vars

\* C4: a tick whose new head is a cell of the current snake, the tail cell
\* included, leaves snake, food, score and direction unchanged and sets
\* running to false and gameOver to true.
C4_CollisionFrame ==
    [][(TickEnabled /\ TickStep /\ Target \in Range(snake))
         => /\ snake' = snake
            /\ food' = food
            /\ score' = score
            /\ direction' = direction
            /\ running' = FALSE
            /\ gameOver' = TRUE]_vars

\* C4 witness: a collision with the tail cell has ended the game.
C4_Witness ==
    /\ event = "collision"
    /\ gameOver /\ ~running
    /\ Len(snake) >= 2
    /\ Target = snake[Len(snake)]

\* C5: a tick that neither collides nor eats keeps the length: the new
\* snake is the new head followed by the old snake without its last cell;
\* score and food are unchanged.
C5_MoveKeepsLength ==
    [][(TickEnabled /\ TickStep /\ Target \notin Range(snake) /\ Target # food)
         => /\ Len(snake') = Len(snake)
            /\ snake' = <<Target>> \o SubSeq(snake, 1, Len(snake) - 1)
            /\ score' = score
            /\ food' = food]_vars

\* C5 witness: a snake longer than one cell has just made a plain move.
C5_Witness ==
    /\ event = "moved"
    /\ Len(snake) >= 2
    /\ running /\ ~gameOver

\* C6: food placement always terminates, also when the snake covers the
\* whole grid: the engine never ends up resampling forever.
C6_PlacementTerminates == hung = FALSE

\* C7: the snake has at least one cell and never holds a cell twice.
C7_SnakeDistinct == Len(snake) >= 1 /\ NoDuplicates(snake)

\* C7 witness: a tick of a snake of three cells was refused as a collision.
C7_Witness ==
    /\ event = "collision"
    /\ Len(snake) >= 3
    /\ Target \in Range(snake)

\* C8: every operation that starts the game while gameOver is true (Start
\* button, Restart button) resets first: afterwards the snake is the single
\* centre cell, the direction is (1,0), the score is 0, running is true and
\* gameOver is false.
C8_StartResets ==
    [][(gameOver /\ event' \in {"start", "restart"})
         => /\ snake' = <<Centre>>
            /\ direction' = Right
            /\ score' = 0
            /\ running' = TRUE
            /\ gameOver' = FALSE]_vars

\* C9: when requests arrived since the previous tick, the tick applies the
\* last of them that is not the opposite of the direction the previous tick
\* applied.
C9_LastValidWins ==
    [][(TickEnabled /\ TickStep /\ active # NoDir /\ wanted # NoDir)
         => direction = wanted]_vars

\* C10: a collision tick sets the high score to max(high score, score) and
\* persists it; no step lowers the high score, and reset leaves it alone.
C10_HighScoreMax ==
    [][/\ (TickEnabled /\ TickStep /\ Target \in Range(snake))
            => /\ highScore' = Max(highScore, score)
               /\ LoadHighScore(storage') = highScore'
       /\ highScore' >= highScore
       /\ event' \in {"reset", "start"} => highScore' = highScore]_vars

\* C10 witness: a game ended below the high score of an earlier game, and
\* the high score kept the earlier value.
C10_Witness ==
    /\ event = "collision"
    /\ score >= 1
    /\ highScore > score
    /\ highScore > MaxStored
\* C11: while running is false or gameOver is true no tick takes effect:
\* every step taken from such a state is a start, pause/toggle, reset or
\* direction request.
C11_NoTickWhenStopped ==
    [][(~running \/ gameOver) => event' \notin TickEvents]_vars

\* C11 witness: the game is over and running is true (Toggle pressed on the
\* game-over screen), the case where only the gameOver test stops the tick.
C11_Witness ==
    /\ gameOver /\ running
    /\ Len(snake) >= 2

\* C12: reset from any state gives the single centre cell, direction (1,0),
\* score 0, running false, gameOver false and a food cell of the grid, and
\* leaves the high score (also the stored one) and the tick rate unchanged.
C12_ResetFrame ==
    [][(event' = "reset")
         => /\ snake' = <<[x |-> GRID_SIZE \div 2, y |-> GRID_SIZE \div 2]>>
            /\ direction' = [x |-> 1, y |-> 0]
            /\ score' = 0
            /\ running' = FALSE
            /\ gameOver' = FALSE
            /\ food' \in Cells
            /\ highScore' = highScore
            /\ storage' = storage
            /\ speed' = speed]_vars

\* C12 witness: reset has acted with a non-default tick rate and a high
\* score already earned.
C12_Witness ==
    /\ event = "reset"
    /\ speed # DefaultSpeed
    /\ highScore >= 2
    /\ snake = <<Centre>>

\* one coordinate after a move by delta in {-1, 0, 1} on the torus
Wrap(c, delta) ==
    IF c + delta = GRID_SIZE THEN 0
    ELSE IF c + delta = -1 THEN GRID_SIZE - 1
    ELSE c + delta

\* C13: every tick that moves the snake puts the head on (head + direction)
\* with each coordinate wrapped around the grid, and every snake cell lies
\* on the grid in every reachable state.
C13_WrapAround ==
    /\ [](\A i \in 1..Len(snake) :
            /\ 0 <= snake[i].x /\ snake[i].x < GRID_SIZE
            /\ 0 <= snake[i].y /\ snake[i].y < GRID_SIZE)
    /\ [][(TickStep /\ snake' # snake)
            => /\ snake'[1].x = Wrap(snake[1].x, direction.x)
               /\ snake'[1].y = Wrap(snake[1].y, direction.y)]_vars

\* C13 witness: a tick to the right has carried the head from the last
\* column to column 0.
C13_Witness ==
    /\ event \in {"moved", "foodEaten"}
    /\ active = Right
    /\ snake[1].x = 0
\* C14: localStorage is written only by a collision tick whose score is
\* strictly greater than the stored high score.
C14_WriteOnlyOnRecord ==
    [][wrote' => (TickEnabled /\ Target \in Range(snake) /\ score > highScore)]_vars

\* C14 amended: localStorage is written by every collision tick and by no
\* other step; the value written is max(stored, score), so the stored high
\* score changes only when the score is strictly greater than it.
C14_WriteOnCollision ==
    [][/\ wrote' => (TickEnabled /\ Target \in Range(snake))
       /\ (TickEnabled /\ TickStep /\ Target \in Range(snake))
            => /\ wrote'
               /\ LoadHighScore(storage') = Max(LoadHighScore(storage), score)
       /\ (LoadHighScore(storage') # LoadHighScore(storage))
            => score > LoadHighScore(storage)]_vars

\* C14 witness: a collision below the stored high score has written to
\* localStorage, and the stored value is still the old high score.
C14_Witness ==
    /\ wrote
    /\ score < LoadHighScore(storage)
    /\ LoadHighScore(storage) = highScore

RequestEvents == {"key", "swipe", "button"}

Negated(d) == [x |-> -(d.x), y |-> -(d.y)]

\* C15: a single direction request that is the exact negation of the
\* current direction leaves the direction unchanged, any other request
\* becomes the direction, and no request changes any other part of the
\* game state.
C15_SingleRequest ==
    [][/\ (event' \in RequestEvents)
            => /\ direction' # Negated(direction)
               /\ UNCHANGED <<snake, food, running, speed, score, gameOver,
                              highScore, storage>>
       /\ \A d \in Directions : \A ev \in RequestEvents :
              Request(d, ev)
                 => direction' = (IF d = Negated(direction) THEN direction ELSE d)]_vars

\* C15 witness: since the last tick only requests opposite to the direction
\* in force have arrived, and the direction is still the one the tick applied.
C15_Witness ==
    /\ event \in RequestEvents
    /\ active # NoDir
    /\ wanted = NoDir
    /\ direction = active

\* C16: pause sets running to false and leaves snake, direction, food,
\* score, gameOver, tick rate and high score as they were.
C16_PauseFrame ==
    [][(event' = "pause")
         => /\ running' = FALSE
            /\ UNCHANGED <<snake, direction, food, score, gameOver, speed,
                           highScore, storage>>]_vars

\* C16 witness: a game with points scored and a non-default tick rate has
\* just been paused.
C16_Witness ==
    /\ event = "pause"
    /\ ~running
    /\ score >= 1
    /\ speed # DefaultSpeed
\* C17: running and gameOver are never both true, and gameOver is left only
\* by start or reset.
C17_OneStatus ==
    /\ [](~(running /\ gameOver))
    /\ [][(gameOver /\ ~gameOver') => event' \in {"start", "restart", "reset"}]_vars

\* C18: start while gameOver is false resumes without resetting: running
\* becomes true and snake, direction, food, score and high score stay.
C18_StartResumes ==
    [][(~gameOver /\ event' = "start")
         => /\ running' = TRUE
            /\ gameOver' = FALSE
            /\ UNCHANGED <<snake, direction, food, score, highScore, storage>>]_vars

\* C18 witness: a paused game with points scored has been resumed by Start.
C18_Witness ==
    /\ event = "start"
    /\ running /\ ~gameOver
    /\ score >= 1
    /\ Len(snake) >= 2

\* C19: the space key toggles pause: pressed while running it sets running
\* to false, pressed while paused (running false, gameOver false) it sets
\* running to true.
C19_SpaceToggles ==
    [][(event' = "space")
         => /\ running => (running' = FALSE)
            /\ (~running /\ ~gameOver) => (running' = TRUE)]_vars

\* C20: in every reachable state the score is the snake length minus 1.
C20_ScoreIsLength == score = Len(snake) - 1

\* C20 witness: the snake has just eaten for at least the second time.
C20_Witness ==
    /\ event = "foodEaten"
    /\ score >= 2
====
